---------------------------- MODULE Spec2Model ----------------------------
(***************************************************************************)
(* A model of scripts/claude_beta.py: the command-line entry point main,   *)
(* the model selection by keyword, the single request chat_with_beta sends *)
(* to the remote completion endpoint, the rendering of the response's      *)
(* content blocks, the usage and cost lines, and the catch-all handler.    *)
(*                                                                         *)
(* Python str values whose characters matter (the command-line arguments   *)
(* and the prompt) are sequences of one-character strings.  The emoji that *)
(* open the printed lines are written as a word in parentheses, since a    *)
(* module is ASCII text: "(x) Error: " stands for the cross-mark prefix.   *)
(***************************************************************************)
EXTENDS Integers, Sequences, FiniteSets, TLC

VARIABLES
    argv,         \* sys.argv: the program name, then the arguments
    tools,        \* the module-level list TOOLS
    pc,           \* where the process is: main, create, render, exited
    prompt,       \* main's local prompt (chat_with_beta's parameter)
    model,        \* main's local model (chat_with_beta's parameter)
    requests,     \* the calls made to client.beta.messages.create, in order
    response,     \* chat_with_beta's local response
    idx,          \* position of the for loop over response.content
    stdout,       \* what print has written, one entry per print call
    result,       \* what chat_with_beta returned
    exit_status   \* <<>> while the process runs, then <<status>>

vars == <<argv, tools, pc, prompt, model, requests, response, idx, stdout,
          result, exit_status>>

---------------------------------------------------------------------------
(* Bounds of the model.                                                    *)

\* The longest command line: at most MaxArgs arguments after the program name.
MaxArgs == 2

\* The longest response: at most MaxBlocks content blocks.
MaxBlocks == 3

\* Token counts 0..MaxTokens are all tried by the cost specification.
MaxTokens == 60

---------------------------------------------------------------------------
(* Python values.                                                          *)

PyNone == [t |-> "None"]

PyInt(n) == [t |-> "int", v |-> n]

PyDict(items) == [t |-> "dict", items |-> items]

\* key in d, for a dict d kept as a sequence of <<key, value>> pairs.
HasKey(d, key) == \E i \in 1..Len(d.items) : d.items[i][1] = key

\* d[key]
GetItem(d, key) ==
    LET i == CHOOSE j \in 1..Len(d.items) : d.items[j][1] = key
    IN  d.items[i][2]

---------------------------------------------------------------------------
(* str.lower, str.join and the substring test of main.                     *)

\* str.lower on one character.
LowerChar(c) ==
    CASE c = "A" -> "a" [] c = "B" -> "b" [] c = "C" -> "c" [] c = "D" -> "d"
      [] c = "E" -> "e" [] c = "F" -> "f" [] c = "G" -> "g" [] c = "H" -> "h"
      [] c = "I" -> "i" [] c = "J" -> "j" [] c = "K" -> "k" [] c = "L" -> "l"
      [] c = "M" -> "m" [] c = "N" -> "n" [] c = "O" -> "o" [] c = "P" -> "p"
      [] c = "Q" -> "q" [] c = "R" -> "r" [] c = "S" -> "s" [] c = "T" -> "t"
      [] c = "U" -> "u" [] c = "V" -> "v" [] c = "W" -> "w" [] c = "X" -> "x"
      [] c = "Y" -> "y" [] c = "Z" -> "z" [] OTHER -> c

\* prompt.lower()
Lower(s) == [i \in 1..Len(s) |-> LowerChar(s[i])]

RECURSIVE Join(_)
\* " ".join(args)
Join(args) ==
    IF args = <<>> THEN <<>>
    ELSE IF Len(args) = 1 THEN args[1]
    ELSE args[1] \o <<" ">> \o Join(Tail(args))

\* kw in s
Contains(kw, s) ==
    \E i \in 1..(Len(s) + 1) :
        /\ i + Len(kw) - 1 <= Len(s)
        /\ SubSeq(s, i, i + Len(kw) - 1) = kw

\* The list of keywords in main, in its order.
KEYWORDS ==
    << <<"a","r","c","h","i","t","e","c","t">>,
       <<"d","e","s","i","g","n">>,
       <<"c","o","m","p","l","e","x">>,
       <<"a","n","a","l","y","z","e"," ","a","l","l">> >>

OPUS == "claude-opus-4-5-20251101"

SONNET == "claude-sonnet-4-5-20250929"

\* A slip main could make: the keywords tested against the prompt as typed.
SelectModelNoLower(p) ==
    IF \E k \in 1..Len(KEYWORDS) : Contains(KEYWORDS[k], p)
    THEN OPUS ELSE SONNET

\* model = OPUS if any(kw in prompt.lower() for kw in [...]) else SONNET
SelectModel(p) ==
    IF \E k \in 1..Len(KEYWORDS) : Contains(KEYWORDS[k], Lower(p))
    THEN OPUS ELSE SONNET

---------------------------------------------------------------------------
(* The module-level list TOOLS.                                            *)

TOOLS ==
    << [type |-> "tool_search_tool_regex_20251119", name |-> "tool_search"],
       [type |-> "code_execution_20250825", name |-> "code_execution"],
       [name |-> "search_kb",
        description |-> "Search the knowledge base for relevant information",
        input_schema |->
            [type |-> "object",
             properties |->
                 [query |-> [type |-> "string", description |-> "Search query"],
                  limit |-> [type |-> "integer", default |-> 10]],
             required |-> <<"query">>],
        defer_loading |-> TRUE,
        allowed_callers |-> <<"code_execution_20250825">>,
        input_examples |->
            << [query |-> "react streaming hooks", limit |-> 5],
               [query |-> "webllm integration"] >>],
       [name |-> "read_file",
        description |-> "Read a file from the project",
        input_schema |->
            [type |-> "object",
             properties |->
                 [path |-> [type |-> "string",
                            description |-> "File path relative to project root"]],
             required |-> <<"path">>],
        defer_loading |-> TRUE,
        allowed_callers |-> <<"code_execution_20250825">>] >>

---------------------------------------------------------------------------
(* Natural numbers too large for one machine word, as the little-endian    *)
(* sequence of their digits in base 2^15 with no leading zero digit.  They *)
(* carry the 53-bit significands of Python's float and the exact results   *)
(* that are rounded to them.                                               *)

BASE == 2^15

RECURSIVE BigNorm(_)
BigNorm(b) ==
    IF b = <<>> THEN <<>>
    ELSE IF b[Len(b)] = 0 THEN BigNorm(SubSeq(b, 1, Len(b) - 1))
    ELSE b

RECURSIVE BigOfInt(_)
BigOfInt(n) == IF n = 0 THEN <<>> ELSE <<n % BASE>> \o BigOfInt(n \div BASE)

RECURSIVE IntOfBig(_)
IntOfBig(b) == IF b = <<>> THEN 0 ELSE b[1] + BASE * IntOfBig(Tail(b))

RECURSIVE BigAddC(_, _, _)
BigAddC(a, b, carry) ==
    IF a = <<>> /\ b = <<>> THEN BigOfInt(carry)
    ELSE LET x == IF a = <<>> THEN 0 ELSE a[1]
             y == IF b = <<>> THEN 0 ELSE b[1]
             t == x + y + carry
         IN  <<t % BASE>>
             \o BigAddC(IF a = <<>> THEN a ELSE Tail(a),
                        IF b = <<>> THEN b ELSE Tail(b), t \div BASE)

BigAdd(a, b) == BigAddC(a, b, 0)

RECURSIVE BigMulDigit(_, _, _)
\* b times the digit k (0 <= k <= BASE), plus carry.
BigMulDigit(b, k, carry) ==
    IF b = <<>> THEN BigOfInt(carry)
    ELSE LET t == b[1] * k + carry
         IN  <<t % BASE>> \o BigMulDigit(Tail(b), k, t \div BASE)

RECURSIVE BigMul(_, _)
BigMul(a, b) ==
    IF b = <<>> THEN <<>>
    ELSE BigNorm(BigAdd(BigMulDigit(a, b[1], 0), <<0>> \o BigMul(a, Tail(b))))

RECURSIVE BigDivMod(_, _)
\* Quotient (not normalised) and remainder of b by d, for 1 <= d <= BASE.
BigDivMod(b, d) ==
    IF b = <<>> THEN [q |-> <<>>, r |-> 0]
    ELSE LET hi  == BigDivMod(Tail(b), d)
             cur == hi.r * BASE + b[1]
         IN  [q |-> <<cur \div d>> \o hi.q, r |-> cur % d]

RECURSIVE BitLenInt(_)
BitLenInt(n) == IF n = 0 THEN 0 ELSE 1 + BitLenInt(n \div 2)

\* The number of bits of a normalised b.
BitLen(b) == IF b = <<>> THEN 0 ELSE 15 * (Len(b) - 1) + BitLenInt(b[Len(b)])

IsOdd(b) == b # <<>> /\ b[1] % 2 = 1

\* b * 2^k
ShiftLeft(b, k) ==
    IF b = <<>> THEN <<>>
    ELSE [i \in 1..(k \div 15) |-> 0] \o BigNorm(BigMulDigit(b, 2^(k % 15), 0))

\* floor(b / 2^k), and whether a non-zero bit was shifted out.
ShiftRight(b, k) ==
    LET n    == k \div 15
        low  == SubSeq(b, 1, IF n < Len(b) THEN n ELSE Len(b))
        rest == SubSeq(b, n + 1, Len(b))
        dv   == BigDivMod(rest, 2^(k % 15))
    IN  [q |-> BigNorm(dv.q),
         sticky |-> dv.r # 0 \/ \E i \in 1..Len(low) : low[i] # 0]

\* (b + f) / 2^s rounded to the nearest integer, ties to the even one, where
\* f is a fraction in [0, 1) that is non-zero exactly when sticky0.
RoundShift(b, s, sticky0) ==
    IF s = 0 THEN b
    ELSE LET sh     == ShiftRight(b, s - 1)
             q      == ShiftRight(sh.q, 1).q
             half   == IsOdd(sh.q)
             sticky == sh.sticky \/ sticky0
         IN  IF half /\ (sticky \/ IsOdd(q)) THEN BigNorm(BigAdd(q, <<1>>))
             ELSE q

---------------------------------------------------------------------------
(* Python's float: an IEEE 754 binary64 value m * 2^e, m below 2^53 + 1.   *)
(* Every operation is the exact result rounded to nearest, ties to even.   *)
(* The exponent range is not modelled: a cost neither overflows nor is     *)
(* subnormal.                                                              *)

\* (b + f) * 2^e rounded to a float, f as in RoundShift.
FRound(b, sticky0, e) ==
    LET s == IF BitLen(b) > 53 THEN BitLen(b) - 53 ELSE 0
    IN  [m |-> RoundShift(b, s, sticky0), e |-> e + s]

\* float(n) for an int n, exact below 2^53.
FromInt(n) == [m |-> BigOfInt(n), e |-> 0]

\* a * b
FMul(a, b) == FRound(BigMul(a.m, b.m), FALSE, a.e + b.e)

\* a + b
FAdd(a, b) ==
    IF a.m = <<>> THEN b
    ELSE IF b.m = <<>> THEN a
    ELSE LET e == IF a.e < b.e THEN a.e ELSE b.e
         IN  FRound(BigNorm(BigAdd(ShiftLeft(a.m, a.e - e),
                                   ShiftLeft(b.m, b.e - e))), FALSE, e)

\* a / d for an int d with 1 <= d <= BASE: the dividend is scaled so that the
\* quotient keeps at least two bits below the 53 it is rounded to.
FDivInt(a, d) ==
    IF a.m = <<>> THEN a
    ELSE LET k  == IF BitLen(a.m) < 70 THEN 70 - BitLen(a.m) ELSE 0
             dv == BigDivMod(ShiftLeft(a.m, k), d)
         IN  FRound(BigNorm(dv.q), dv.r # 0, a.e - k)

\* The literal 0.003: the float nearest to 3/1000.
RATE_IN == FDivInt(FromInt(3), 1000)

\* The literal 0.015: the float nearest to 15/1000.
RATE_OUT == FDivInt(FromInt(15), 1000)

Digit(d) == <<"0", "1", "2", "3", "4", "5", "6", "7", "8", "9">>[d + 1]

RECURSIVE DecStr(_)
\* str(n) for an int n >= 0, as in an f-string.
DecStr(n) ==
    IF n < 10 THEN <<Digit(n)>> ELSE DecStr(n \div 10) \o <<Digit(n % 10)>>

\* The number of ten-thousandths f"{x:.4f}" shows for a float x >= 0: x * 10^4
\* rounded to the nearest integer from x's exact binary value, ties to even.
TenThousandths(x) ==
    LET n == BigNorm(BigMulDigit(x.m, 10000, 0))
    IN  IntOfBig(IF x.e >= 0 THEN ShiftLeft(n, x.e)
                 ELSE RoundShift(n, 0 - x.e, FALSE))

\* f"{x:.4f}"
Format4(x) ==
    LET u == TenThousandths(x)
    IN  DecStr(u \div 10000) \o <<".">>
        \o <<Digit((u \div 1000) % 10), Digit((u \div 100) % 10),
             Digit((u \div 10) % 10), Digit(u % 10)>>

\* (input_tokens * 0.003 + output_tokens * 0.015) / 1000
CostEstimate(input_tokens, output_tokens) ==
    FDivInt(FAdd(FMul(FromInt(input_tokens), RATE_IN),
                 FMul(FromInt(output_tokens), RATE_OUT)), 1000)

---------------------------------------------------------------------------
(* What print writes.  One entry per print call: the fixed text that opens *)
(* the line and, in body, the pieces of the interpolated values.           *)

Line(label, body) == [label |-> label, body |-> body]

\* "-" * 50
RULE == "--------------------------------------------------"

\* Lines 117-120: the usage text of main.
USAGE_TEXT ==
    << Line("Usage: python claude_beta.py 'your prompt'", <<>>),
       Line("\nExamples:", <<>>),
       Line("  python claude_beta.py 'Analyze src/core/*.ts files and find patterns'", <<>>),
       Line("  python claude_beta.py 'Search KB for react streaming and summarize'", <<>>) >>

\* Lines 77-79: what chat_with_beta prints before the try block.
Header(p, m) ==
    << Line("\n(robot) Using model: ", <<m>>),
       Line("(memo) Prompt: ", p \o <<"\n">>),
       Line(RULE, <<>>) >>

\* Line 111: the line the handler prints for the exception with message msg.
ErrorLine(msg) == Line("(x) Error: ", <<msg>>)

\* str(v) inside an f-string, for an int or None.
Str(v) == IF v.t = "None" THEN <<"None">> ELSE DecStr(v.v)

RECURSIVE JsonItems(_)
\* The members of a non-empty JSON object at indent 2, one per line.
JsonItems(items) ==
    IF items = <<>> THEN <<>>
    ELSE <<"\n  ", "\"", items[1][1], "\"", ": ", "\"", items[1][2], "\"">>
         \o (IF Len(items) > 1 THEN <<",">> ELSE <<>>)
         \o JsonItems(Tail(items))

\* json.dumps(v, indent=2) for None or a dict of strings.
JsonDumps(v) ==
    IF v.t = "None" THEN <<"null">>
    ELSE IF v.items = <<>> THEN <<"{}">>
    ELSE <<"{">> \o JsonItems(v.items) \o <<"\n", "}">>

\* hasattr(block, name)
HasAttr(block, name) == name \in DOMAIN block

\* A run of statements: the lines it printed and, in raised, the message of
\* the exception that ended it (<<>> when it ran to its end).
Ran(lines) == [lines |-> lines, raised |-> <<>>]

Raised(lines, msg) == [lines |-> lines, raised |-> <<msg>>]

\* Line 95: a text block.
RenderText(block) == Ran(<< Line("\n(speech) Response:\n", <<block.text>>) >>)

\* Lines 97-98: a tool_use block.
RenderToolUse(block) ==
    Ran(<< Line("\n(wrench) Tool Call: ", <<block.name>>),
           Line("   Input: ", JsonDumps(block.input)) >>)

\* A slip lines 100-102 could make: block.input['code'] read without the test
\* that the key is there (a KeyError without it).
RenderServerToolNoTest(block) ==
    LET first == << Line("\n(zap) Server Tool: ", <<block.name>>) >>
    IN  IF ~HasAttr(block, "input") THEN Ran(first)
        ELSE IF block.input.t = "None"
        THEN Raised(first, "'NoneType' object is not subscriptable")
        ELSE IF HasKey(block.input, "code")
        THEN Ran(first \o << Line("   Code:\n", <<GetItem(block.input, "code")>>) >>)
        ELSE Raised(first, "'code'")

\* Lines 100-102: a server_tool_use block.
RenderServerTool(block) ==
    LET first == << Line("\n(zap) Server Tool: ", <<block.name>>) >>
    IN  IF ~HasAttr(block, "input") THEN Ran(first)
        ELSE IF block.input.t = "None"
        THEN Raised(first, "argument of type 'NoneType' is not iterable")
        ELSE IF HasKey(block.input, "code")
        THEN Ran(first \o << Line("   Code:\n", <<GetItem(block.input, "code")>>) >>)
        ELSE Ran(first)

\* A slip lines 94-102 could make: a final else that prints a block of a type
\* the loop does not know.
RenderBlockElse(block) ==
    IF block.type = "text" THEN RenderText(block)
    ELSE IF block.type = "tool_use" THEN RenderToolUse(block)
    ELSE IF block.type = "server_tool_use" THEN RenderServerTool(block)
    ELSE Ran(<< Line("\n(?) Block: ", <<block.type>>) >>)

\* Lines 94-102: the body of the for loop, for one block.
RenderBlock(block) ==
    IF block.type = "text" THEN RenderText(block)
    ELSE IF block.type = "tool_use" THEN RenderToolUse(block)
    ELSE IF block.type = "server_tool_use" THEN RenderServerTool(block)
    ELSE Ran(<<>>)

\* A slip line 106 could make: the two rates exchanged.
CostLineSwapped(usage) ==
    Line("(money) Est. cost: $",
         Format4(CostEstimate(usage.output_tokens.v, usage.input_tokens.v)))

\* Line 106: the cost line, for a usage whose counts are ints.
CostLine(usage) ==
    Line("(money) Est. cost: $",
         Format4(CostEstimate(usage.input_tokens.v, usage.output_tokens.v)))

\* A slip lines 105-106 could make: the cost line printed before the usage line.
RenderSummaryCostFirst(resp) ==
    IF resp.usage.t = "None"
    THEN Raised(<<Line("\n" \o RULE, <<>>)>>,
                "'NoneType' object has no attribute 'input_tokens'")
    ELSE LET usage == resp.usage
             line  == Line("(chart) Usage: ",
                           Str(usage.input_tokens) \o <<" in / ">>
                           \o Str(usage.output_tokens) \o <<" out">>)
         IN  IF usage.input_tokens.t = "None" \/ usage.output_tokens.t = "None"
             THEN Raised(<<Line("\n" \o RULE, <<>>)>>,
                         "unsupported operand type(s) for *: 'NoneType' and 'float'")
             ELSE Ran(<<Line("\n" \o RULE, <<>>), CostLine(usage), line>>)

\* Lines 104-106: the rule, the usage line and the cost line.
RenderSummary(resp) ==
    IF resp.usage.t = "None"
    THEN Raised(<<Line("\n" \o RULE, <<>>)>>,
                "'NoneType' object has no attribute 'input_tokens'")
    ELSE LET usage == resp.usage
             line  == Line("(chart) Usage: ",
                           Str(usage.input_tokens) \o <<" in / ">>
                           \o Str(usage.output_tokens) \o <<" out">>)
         IN  IF usage.input_tokens.t = "None" \/ usage.output_tokens.t = "None"
             THEN Raised(<<Line("\n" \o RULE, <<>>), line>>,
                         "unsupported operand type(s) for *: 'NoneType' and 'float'")
             ELSE Ran(<<Line("\n" \o RULE, <<>>), line, CostLine(usage)>>)

\* A slip lines 110-112 could make: the handler returns None and prints nothing.
CaughtSilent(run) == run.lines

\* Lines 110-111: what is on stdout once the handler has caught the exception
\* that ended run.
Caught(run) == run.lines \o <<ErrorLine(run.raised[1])>>

\* A slip line 129 could make: the status taken from chat_with_beta's result.
ExitStatusByResult(res) == IF res.t = "None" THEN 1 ELSE 0

\* Line 129: main returns after chat_with_beta, whatever it returned, and the
\* interpreter exits with status 0.
ExitStatusOfMain(res) == 0

\* A slip lines 82-90 could make: max_tokens left at a smaller budget.
ChatRequestOther(p, m, t) ==
    [betas |-> <<"advanced-tool-use-2025-11-20">>,
     model |-> m,
     max_tokens |-> 1024,
     tools |-> t,
     messages |-> << [role |-> "user", content |-> p] >>]

\* Lines 82-90: the arguments of client.beta.messages.create.
ChatRequest(p, m, t) ==
    [betas |-> <<"advanced-tool-use-2025-11-20">>,
     model |-> m,
     max_tokens |-> 4096,
     tools |-> t,
     messages |-> << [role |-> "user", content |-> p] >>]

\* A slip lines 81-112 could make: the call issued again (a retry).
SendTwice(reqs, req) == Append(Append(reqs, req), req)

\* Line 82: the one call of client.beta.messages.create.
Send(reqs, req) == Append(reqs, req)

---------------------------------------------------------------------------
(* The inputs: command lines, and what the remote endpoint answers.        *)

PROGRAM == <<"scripts/claude_beta.py">>

W_EMPTY == <<>>

W_SPACE == <<" ">>

W_HI == <<"h","i">>

W_REDESIGNS == <<"r","e","D","e","s","i","g","n","s">>

W_COMPLEX == <<"C","O","M","P","L","E","X">>

W_ARCHITECT == <<"a","r","c","h","i","t","e","c","t">>

W_ANALYZE == <<"A","n","a","l","y","z","e">>

W_ALL == <<"a","l","l">>

ArgWords ==
    {W_EMPTY, W_SPACE, W_HI, W_REDESIGNS, W_COMPLEX, W_ARCHITECT, W_ANALYZE, W_ALL}

\* Every command line of at most MaxArgs arguments.
ArgvSpace ==
    {<<PROGRAM>> \o args : args \in UNION {[1..n -> ArgWords] : n \in 0..MaxArgs}}

\* Three command lines: no prompt, a prompt for each model.
SampleArgv ==
    {<<PROGRAM>>, <<PROGRAM, W_HI>>, <<PROGRAM, W_ANALYZE, W_ALL>>}

TEXT_HELLO == [type |-> "text", text |-> "Hello"]

TEXT_WORLD == [type |-> "text", text |-> "World"]

TOOL_USE ==
    [type |-> "tool_use", name |-> "search_kb",
     input |-> PyDict(<< <<"query", "react">>, <<"limit", "5">> >>)]

SERVER_CODE ==
    [type |-> "server_tool_use", name |-> "code_execution",
     input |-> PyDict(<< <<"code", "print(1)">> >>)]

SERVER_NO_CODE ==
    [type |-> "server_tool_use", name |-> "tool_search",
     input |-> PyDict(<< <<"pattern", "kb">> >>)]

SERVER_NO_INPUT == [type |-> "server_tool_use", name |-> "tool_search"]

SERVER_NULL_INPUT ==
    [type |-> "server_tool_use", name |-> "code_execution", input |-> PyNone]

TOOL_RESULT == [type |-> "code_execution_tool_result"]

BlockShapes ==
    {TEXT_HELLO, TEXT_WORLD, TOOL_USE, SERVER_CODE, SERVER_NO_CODE,
     SERVER_NO_INPUT, SERVER_NULL_INPUT, TOOL_RESULT}

Usage(i, o) == [t |-> "Usage", input_tokens |-> i, output_tokens |-> o]

\* Usages: 1000 in / 500 out, a count whose cost is halfway between two
\* printed values, counts that are null, and no usage at all.
SampleUsages ==
    {Usage(PyInt(1000), PyInt(500)), Usage(PyInt(0), PyInt(10)),
     Usage(PyNone, PyNone), Usage(PyInt(7), PyNone), PyNone}

\* Every response of at most MaxBlocks blocks.
Replies ==
    {[content |-> c, usage |-> u] :
        c \in UNION {[1..n -> BlockShapes] : n \in 0..MaxBlocks}, u \in SampleUsages}

SampleReplies ==
    {[content |-> <<TEXT_HELLO>>, usage |-> Usage(PyInt(1000), PyInt(500))],
     [content |-> <<SERVER_CODE, TOOL_RESULT, TEXT_WORLD>>,
      usage |-> Usage(PyInt(0), PyInt(10))],
     [content |-> <<TOOL_USE, SERVER_NULL_INPUT, TEXT_HELLO>>,
      usage |-> Usage(PyInt(50), PyInt(0))]}

\* The token counts of the cost specification.
TokenCounts == (0..MaxTokens) \cup {50 * k : k \in 0..20}

CostReplies ==
    {[content |-> <<TEXT_HELLO>>, usage |-> Usage(PyInt(i), PyInt(o))] :
        i \in TokenCounts, o \in TokenCounts}

\* Messages of the exceptions client.beta.messages.create raises.
ApiErrors ==
    {"Connection error.",
     "Could not resolve authentication method. Expected either api_key or auth_token to be set."}

\* The local response before line 82 has bound it.
UNBOUND == [t |-> "unbound"]

---------------------------------------------------------------------------
(* The process.                                                            *)

Init(commandLines) ==
    /\ argv \in commandLines
    /\ tools = TOOLS
    /\ pc = "main"
    /\ prompt = <<>>
    /\ model = ""
    /\ requests = <<>>
    /\ response = UNBOUND
    /\ idx = 1
    /\ stdout = <<>>
    /\ result = [t |-> "pending"]
    /\ exit_status = <<>>

\* Lines 116-121: no prompt on the command line.
MainUsage ==
    /\ pc = "main"
    /\ Len(argv) < 2
    /\ stdout' = stdout \o USAGE_TEXT
    /\ exit_status' = <<1>>
    /\ pc' = "exited"
    /\ UNCHANGED <<argv, tools, prompt, model, requests, response, idx, result>>

\* Lines 123-129 and 77-79: the prompt, the model, the call of chat_with_beta
\* up to the try block.
MainChat ==
    /\ pc = "main"
    /\ Len(argv) >= 2
    /\ prompt' = Join(Tail(argv))
    /\ model' = SelectModel(prompt')
    /\ stdout' = stdout \o Header(prompt', model')
    /\ pc' = "create"
    /\ UNCHANGED <<argv, tools, requests, response, idx, result, exit_status>>

\* Lines 110-112 and 129: the handler catches the exception that ended run,
\* chat_with_beta returns None, main returns and the process exits.
Except(run) ==
    /\ stdout' = stdout \o Caught(run)
    /\ result' = PyNone
    /\ exit_status' = <<ExitStatusOfMain(PyNone)>>
    /\ pc' = "exited"

\* Lines 82-90: the call returns a response.
CreateReturns(replies) ==
    /\ pc = "create"
    /\ \E resp \in replies : response' = resp
    /\ requests' = Send(requests, ChatRequest(prompt, model, tools))
    /\ idx' = 1
    /\ pc' = "render"
    /\ UNCHANGED <<argv, tools, prompt, model, stdout, result, exit_status>>

\* Lines 82-90 and 110-112: the call raises.
CreateRaises ==
    /\ pc = "create"
    /\ requests' = Send(requests, ChatRequest(prompt, model, tools))
    /\ \E msg \in ApiErrors : Except(Raised(<<>>, msg))
    /\ UNCHANGED <<argv, tools, prompt, model, response, idx>>

\* Lines 93-102: one turn of the for loop.
RenderNext ==
    /\ pc = "render"
    /\ idx <= Len(response.content)
    /\ LET run == RenderBlock(response.content[idx])
       IN  IF run.raised = <<>>
           THEN /\ stdout' = stdout \o run.lines
                /\ idx' = idx + 1
                /\ UNCHANGED <<pc, result, exit_status>>
           ELSE /\ Except(run)
                /\ UNCHANGED idx
    /\ UNCHANGED <<argv, tools, prompt, model, requests, response>>

\* Lines 104-108 and 129: after the loop, the summary, the return of response
\* and the exit of the process.
Summary ==
    /\ pc = "render"
    /\ idx > Len(response.content)
    /\ LET run == RenderSummary(response)
       IN  IF run.raised = <<>>
           THEN /\ stdout' = stdout \o run.lines
                /\ result' = [t |-> "Message", v |-> response]
                /\ exit_status' = <<ExitStatusOfMain(result')>>
                /\ pc' = "exited"
           ELSE Except(run)
    /\ UNCHANGED <<argv, tools, prompt, model, requests, response, idx>>

Next(replies) ==
    \/ MainUsage
    \/ MainChat
    \/ CreateReturns(replies)
    \/ CreateRaises
    \/ RenderNext
    \/ Summary

\* Every command line, a few responses.
Spec == Init(ArgvSpace) /\ [][Next(SampleReplies)]_vars

\* A few command lines, every response.
SpecRender == Init(SampleArgv) /\ [][Next(Replies)]_vars

\* A few command lines, one response for every pair of token counts.
SpecCost == Init(SampleArgv) /\ [][Next(CostReplies)]_vars

---------------------------------------------------------------------------
(* Properties.  What each one expects is written out here from the         *)
(* statement it checks, not taken from the operators above.                *)

\* The process was started with a prompt.
HasPrompt == Len(argv) >= 2

RECURSIVE Flatten(_)
\* The concatenation of a sequence of sequences.
Flatten(ss) == IF ss = <<>> THEN <<>> ELSE Head(ss) \o Flatten(Tail(ss))

UPPERCASE == <<"A","B","C","D","E","F","G","H","I","J","K","L","M",
               "N","O","P","Q","R","S","T","U","V","W","X","Y","Z">>

LOWERCASE == <<"a","b","c","d","e","f","g","h","i","j","k","l","m",
               "n","o","p","q","r","s","t","u","v","w","x","y","z">>

\* s with every upper-case letter replaced by its lower-case letter.
LowerCased(s) ==
    [i \in 1..Len(s) |->
        IF \E k \in 1..26 : UPPERCASE[k] = s[i]
        THEN LOWERCASE[CHOOSE k \in 1..26 : UPPERCASE[k] = s[i]]
        ELSE s[i]]

\* s = pre \o kw \o post for some pre and post.
IsSubstring(kw, s) ==
    \E i \in 0..Len(s) : \E j \in i..Len(s) : SubSeq(s, i + 1, j) = kw

TRIGGERS ==
    { <<"a","r","c","h","i","t","e","c","t">>,
      <<"d","e","s","i","g","n">>,
      <<"c","o","m","p","l","e","x">>,
      <<"a","n","a","l","y","z","e"," ","a","l","l">> }

\* C1: once main has chosen it, the model is the high-capability identifier
\* exactly when the lower-cased prompt contains "architect", "design",
\* "complex" or "analyze all", and the default identifier otherwise; it is one
\* of the two identifiers and a function of the prompt alone.
C1_ModelSelection ==
    (HasPrompt /\ pc # "main") =>
        /\ model \in {"claude-opus-4-5-20251101", "claude-sonnet-4-5-20250929"}
        /\ model = "claude-opus-4-5-20251101"
               <=> \E kw \in TRIGGERS : IsSubstring(kw, LowerCased(prompt))

\* C1's case: "Analyze" and "all" given as two arguments select the
\* high-capability model.
C1_Witness ==
    /\ pc = "exited"
    /\ argv = <<PROGRAM, W_ANALYZE, W_ALL>>
    /\ model = "claude-opus-4-5-20251101"

\* C2: a process that has exited has status 1 and the usage text on stdout
\* when it was given no argument, and status 0 when it was given at least one,
\* whether chat_with_beta returned the response or None; a process that has
\* not exited has no status.
C2_ExitStatus ==
    /\ pc = "exited" =>
          IF HasPrompt THEN exit_status = <<0>>
          ELSE exit_status = <<1>> /\ stdout = USAGE_TEXT
    /\ pc # "exited" => exit_status = <<>>

\* C2's case: the runner failed and the status is 0 all the same.
C2_Witness ==
    /\ pc = "exited"
    /\ HasPrompt
    /\ result = PyNone
    /\ exit_status = <<0>>

\* The response cannot be handled to its end: a server tool block whose input
\* is null, no usage, or a token count that is null.
Malformed(resp) ==
    \/ \E i \in 1..Len(resp.content) :
          /\ resp.content[i].type = "server_tool_use"
          /\ "input" \in DOMAIN resp.content[i]
          /\ resp.content[i].input = PyNone
    \/ resp.usage = PyNone
    \/ resp.usage.input_tokens = PyNone
    \/ resp.usage.output_tokens = PyNone

\* The number of error lines on stdout.
ErrorLines ==
    Cardinality({i \in 1..Len(stdout) : stdout[i].label = "(x) Error: "})

\* C3: when chat_with_beta is over, a failure of the call (response never
\* bound) or of the handling of the response has left exactly one error line,
\* the last line of stdout, the result None and a normal exit; without a
\* failure the result is the response and stdout has no error line.
C3_FailureHandling ==
    (pc = "exited" /\ HasPrompt) =>
        IF response = UNBOUND \/ Malformed(response)
        THEN /\ result = PyNone
             /\ ErrorLines = 1
             /\ stdout[Len(stdout)].label = "(x) Error: "
             /\ exit_status = <<0>>
        ELSE /\ result = [t |-> "Message", v |-> response]
             /\ ErrorLines = 0

\* C3's case: the failure came while the second block was rendered.
C3_Witness ==
    /\ pc = "exited"
    /\ response # UNBOUND
    /\ response.content = <<TEXT_HELLO, SERVER_NULL_INPUT>>
    /\ result = PyNone
    /\ ErrorLines = 1

\* C4: no call before chat_with_beta reaches it and none in a run without
\* arguments; exactly one from then on in a run with a prompt, also after the
\* call failed; never more than one.
C4_OneCall ==
    /\ Len(requests) <= 1
    /\ ~HasPrompt => requests = <<>>
    /\ pc \in {"main", "create"} => requests = <<>>
    /\ (HasPrompt /\ pc \in {"render", "exited"}) => Len(requests) = 1

\* C4's case: the call failed and the process exited having made one call.
C4_Witness ==
    /\ pc = "exited"
    /\ response = UNBOUND
    /\ result = PyNone
    /\ Len(requests) = 1

RECURSIVE Strip(_)
\* s without the spaces at its two ends.
Strip(s) ==
    IF s = <<>> THEN s
    ELSE IF s[1] = " " THEN Strip(Tail(s))
    ELSE IF s[Len(s)] = " " THEN Strip(SubSeq(s, 1, Len(s) - 1))
    ELSE s

\* C5: no request carries a user message whose content is empty once trimmed.
C5_EmptyPromptNotSent ==
    \A i \in 1..Len(requests) :
        \A k \in 1..Len(requests[i].messages) :
            Strip(requests[i].messages[k].content) # <<>>

RECURSIVE JoinedBySpaces(_)
\* The arguments with one space between each two.
JoinedBySpaces(args) ==
    IF Len(args) = 0 THEN <<>>
    ELSE IF Len(args) = 1 THEN args[1]
    ELSE JoinedBySpaces(SubSeq(args, 1, Len(args) - 1))
         \o <<" ">> \o args[Len(args)]

\* C6: TOOLS never changes, and every request carries the model chosen,
\* max_tokens 4096, the one beta flag, the four tools in their declared order
\* under four different names, and one message, of role user, whose content is
\* the arguments joined by single spaces.
C6_RequestContent ==
    /\ tools = TOOLS
    /\ \A i \in 1..Len(requests) :
          LET r == requests[i]
          IN  /\ DOMAIN r = {"betas", "model", "max_tokens", "tools", "messages"}
              /\ r.model = model
              /\ r.max_tokens = 4096
              /\ r.betas = <<"advanced-tool-use-2025-11-20">>
              /\ r.tools = TOOLS
              /\ [k \in 1..Len(r.tools) |-> r.tools[k].name]
                     = <<"tool_search", "code_execution", "search_kb", "read_file">>
              /\ Cardinality({r.tools[k].name : k \in 1..Len(r.tools)}) = 4
              /\ Len(r.messages) = 1
              /\ r.messages[1].role = "user"
              /\ r.messages[1].content = JoinedBySpaces(SubSeq(argv, 2, Len(argv)))

\* C6's case: a request was sent for a prompt of two arguments.
C6_Witness ==
    /\ Len(requests) = 1
    /\ argv = <<PROGRAM, W_REDESIGNS, W_HI>>
    /\ requests[1].messages[1].content
           = <<"r","e","D","e","s","i","g","n","s"," ","h","i">>
    /\ requests[1].model = "claude-opus-4-5-20251101"

DIGITS == <<"0", "1", "2", "3", "4", "5", "6", "7", "8", "9">>

RECURSIVE Decimal(_)
\* n >= 0 in decimal digits.
Decimal(n) ==
    IF n < 10 THEN <<DIGITS[n + 1]>>
    ELSE Decimal(n \div 10) \o <<DIGITS[(n % 10) + 1]>>

\* u ten-thousandths of a dollar, written with four decimal places.
Dollars(u) ==
    Decimal(u \div 10000) \o <<".">>
    \o [k \in 1..4 |-> DIGITS[((u \div (10 ^ (4 - k))) % 10) + 1]]

\* The run printed its cost line: it is the last line of stdout.
CostPrinted == pc = "exited" /\ result.t = "Message"

\* The text after the dollar sign on the cost line.
PrintedCost == stdout[Len(stdout)].body

\* (3 * input_tokens + 15 * output_tokens): the cost in millionths of a dollar.
Millionths ==
    3 * response.usage.input_tokens.v + 15 * response.usage.output_tokens.v

\* m millionths in ten-thousandths, a tie going to the even neighbour.
HalfEven(m) ==
    IF m % 100 > 50 \/ (m % 100 = 50 /\ (m \div 100) % 2 = 1)
    THEN m \div 100 + 1 ELSE m \div 100

\* m millionths in ten-thousandths, a tie going up.
HalfUp(m) == IF m % 100 >= 50 THEN m \div 100 + 1 ELSE m \div 100

\* C7 as stated: the printed cost is the exact value of
\* (3 * input_tokens + 15 * output_tokens) millionths rounded to 4 decimal
\* places, a tie rounded either to even or up.
C7_CostExact ==
    CostPrinted =>
        PrintedCost \in {Dollars(HalfEven(Millionths)), Dollars(HalfUp(Millionths))}

\* C7 as amended: the printed cost is the float value of
\* (input_tokens * 0.003 + output_tokens * 0.015) / 1000 in 4 decimal places,
\* whichever model was used; it is a multiple of 0.0001 at most 0.00005 away
\* from (3 * input_tokens + 15 * output_tokens) millionths, hence the nearest
\* one unless that amount ends in exactly 50 millionths, where it is either
\* neighbour; 1000 in and 500 out print 0.0105.
C7_CostNearest ==
    CostPrinted =>
        LET m == Millionths
            i == response.usage.input_tokens.v
            o == response.usage.output_tokens.v
        IN  /\ stdout[Len(stdout)].label = "(money) Est. cost: $"
            /\ \E u \in {m \div 100, m \div 100 + 1} :
                  /\ PrintedCost = Dollars(u)
                  /\ 100 * u - m <= 50
                  /\ m - 100 * u <= 50
            /\ PrintedCost = Format4(CostEstimate(i, o))
            /\ (i = 1000 /\ o = 500) => PrintedCost = <<"0", ".", "0", "1", "0", "5">>

\* C7's case: 0 in and 10 out cost exactly 0.00015 and print 0.0001, with the
\* high-capability model.
C7_Witness ==
    /\ CostPrinted
    /\ model = "claude-opus-4-5-20251101"
    /\ response.usage = Usage(PyInt(0), PyInt(10))
    /\ PrintedCost = <<"0", ".", "0", "0", "0", "1">>

TEXT_LABEL == "\n(speech) Response:\n"

TOOL_LABEL == "\n(wrench) Tool Call: "

SERVER_LABEL == "\n(zap) Server Tool: "

CODE_LABEL == "   Code:\n"

\* The block is a server tool block whose input is an object with a "code" field.
HasCode(block) ==
    /\ block.type = "server_tool_use"
    /\ "input" \in DOMAIN block
    /\ block.input.t = "dict"
    /\ \E k \in 1..Len(block.input.items) : block.input.items[k][1] = "code"

\* The labels of the lines that make the output entry of a block.
EntryLabels(block) ==
    CASE block.type = "text" -> <<TEXT_LABEL>>
      [] block.type = "tool_use" -> <<TOOL_LABEL, "   Input: ">>
      [] block.type = "server_tool_use" ->
             IF HasCode(block) THEN <<SERVER_LABEL, CODE_LABEL>> ELSE <<SERVER_LABEL>>
      [] OTHER -> <<>>

\* The labels of the entries of the first n blocks of the response, in order.
EntriesOf(n) == Flatten([k \in 1..n |-> EntryLabels(response.content[k])])

Labels(lines) == [k \in 1..Len(lines) |-> lines[k].label]

\* The lines of stdout that open an entry.
Openers ==
    SelectSeq(stdout, LAMBDA l : l.label \in {TEXT_LABEL, TOOL_LABEL, SERVER_LABEL})

\* C8 as stated: while the loop runs, every block it has passed has produced
\* exactly one output entry, and when they are all text blocks the output is
\* their texts, each under the text label.
C8_OneEntryPerBlock ==
    pc = "render" =>
        /\ Len(Openers) = idx - 1
        /\ (\A k \in 1..(idx - 1) : response.content[k].type = "text") =>
              SubSeq(stdout, 4, Len(stdout)) =
                  [k \in 1..(idx - 1) |->
                      [label |-> TEXT_LABEL, body |-> <<response.content[k].text>>]]

\* C8 as amended: the blocks the loop has passed have produced, after the three
\* lines of the header and in block order, one entry each when of type text,
\* tool_use or server_tool_use, in the format of that type, and nothing when of
\* another type; when they are all text blocks the output is their texts, each
\* under the text label, with no tool line.  The entries stay when the process
\* has exited.
C8_KnownBlocksRendered ==
    (HasPrompt /\ pc \in {"render", "exited"} /\ response # UNBOUND) =>
        LET n     == Len(EntriesOf(idx - 1))
            shown == SubSeq(stdout, 4, 3 + n)
        IN  /\ Len(stdout) >= 3 + n
            /\ pc = "render" => Len(stdout) = 3 + n
            /\ Labels(shown) = EntriesOf(idx - 1)
            /\ (\A k \in 1..(idx - 1) : response.content[k].type = "text") =>
                  shown = [k \in 1..(idx - 1) |->
                              [label |-> TEXT_LABEL,
                               body |-> <<response.content[k].text>>]]

\* C8's case: two text blocks were rendered, in their order.
C8_Witness ==
    /\ pc = "render"
    /\ idx = 3
    /\ response.content = <<TEXT_HELLO, TEXT_WORLD>>
    /\ stdout[4] = [label |-> TEXT_LABEL, body |-> <<"Hello">>]
    /\ stdout[5] = [label |-> TEXT_LABEL, body |-> <<"World">>]

\* The value of the "code" field of the block's input.
CodeOf(block) ==
    block.input.items[CHOOSE k \in 1..Len(block.input.items) :
                          block.input.items[k][1] = "code"][2]

\* C9: every server tool block the loop has passed has its name line on
\* stdout, followed by the literal code when its input has a "code" field and
\* by no code line when it has none; and the block at which rendering failed
\* is never a server tool block whose input is an object or is absent.
C9_ServerToolCode ==
    (HasPrompt /\ pc \in {"render", "exited"} /\ response # UNBOUND) =>
        /\ \A k \in 1..(idx - 1) :
              LET block == response.content[k]
                  at    == 3 + Len(EntriesOf(k - 1)) + 1
              IN  block.type = "server_tool_use" =>
                      /\ stdout[at] = [label |-> SERVER_LABEL, body |-> <<block.name>>]
                      /\ IF HasCode(block)
                         THEN stdout[at + 1] =
                                  [label |-> CODE_LABEL, body |-> <<CodeOf(block)>>]
                         ELSE Len(stdout) > at => stdout[at + 1].label # CODE_LABEL
        /\ (pc = "exited" /\ idx <= Len(response.content)) =>
              LET block == response.content[idx]
              IN  ~(/\ block.type = "server_tool_use"
                    /\ ("input" \in DOMAIN block => block.input.t = "dict"))

\* C9's case: a server tool block without code, then one with the code print(1).
C9_Witness ==
    /\ pc = "render"
    /\ idx = 3
    /\ response.content = <<SERVER_NO_CODE, SERVER_CODE>>
    /\ Len(stdout) = 6
    /\ stdout[4].label = SERVER_LABEL
    /\ stdout[5].label = SERVER_LABEL
    /\ stdout[6] = [label |-> CODE_LABEL, body |-> <<"print(1)">>]

HEADER_LABELS == <<"\n(robot) Using model: ", "(memo) Prompt: ", RULE>>

\* C10: the model and prompt lines are on stdout before the call is made and
\* stay its first lines; while the loop runs stdout is the header and the
\* entries of the blocks passed, in order; a run that returns the response
\* ends with the rule, the usage line and the cost line, after the entries of
\* every block; a run that failed after k blocks has the header, the entries
\* of those k blocks, what the handling printed before it failed and then the
\* error line, nothing of a later block, and no cost line.
C10_OutputOrder ==
    LET all  == IF response = UNBOUND THEN 0 ELSE Len(response.content)
        tail == "\n" \o RULE
    IN  /\ pc = "main" => stdout = <<>>
        /\ pc = "create" =>
              /\ requests = <<>>
              /\ Labels(stdout) = HEADER_LABELS
              /\ stdout[1].body = <<model>>
              /\ stdout[2].body = prompt \o <<"\n">>
        /\ (HasPrompt /\ pc \in {"render", "exited"}) =>
              Labels(SubSeq(stdout, 1, 3)) = HEADER_LABELS
        /\ pc = "render" => Labels(stdout) = HEADER_LABELS \o EntriesOf(idx - 1)
        /\ (pc = "exited" /\ result.t = "Message") =>
              Labels(stdout) = HEADER_LABELS \o EntriesOf(all)
                  \o <<tail, "(chart) Usage: ", "(money) Est. cost: $">>
        /\ (pc = "exited" /\ HasPrompt /\ result = PyNone) =>
              /\ \A k \in 1..Len(stdout) : stdout[k].label # "(money) Est. cost: $"
              /\ IF response = UNBOUND
                 THEN Labels(stdout) = HEADER_LABELS \o <<"(x) Error: ">>
                 ELSE IF idx <= all
                 THEN Labels(stdout) = HEADER_LABELS \o EntriesOf(idx - 1)
                          \o <<SERVER_LABEL, "(x) Error: ">>
                 ELSE Labels(stdout) \in
                          {HEADER_LABELS \o EntriesOf(all) \o <<tail, "(x) Error: ">>,
                           HEADER_LABELS \o EntriesOf(all)
                               \o <<tail, "(chart) Usage: ", "(x) Error: ">>}

\* C10's case: rendering failed at the second of three blocks; the first
\* block's text is on stdout, the third block's is not.
C10_Witness ==
    /\ pc = "exited"
    /\ result = PyNone
    /\ response # UNBOUND
    /\ response.content = <<TEXT_HELLO, SERVER_NULL_INPUT, TEXT_WORLD>>
    /\ idx = 2
    /\ Len(stdout) = 6
    /\ stdout[4].body = <<"Hello">>
    /\ stdout[6].label = "(x) Error: "

=============================================================================
